---------------------------- MODULE Spec2Model ----------------------------
(***************************************************************************)
(* A model of the terrain streaming core of threejs-terrain:               *)
(*   - QuadTree            (src/src/quadtree.js)                           *)
(*   - DictIntersection / DictDifference, toUint32Seed (src/src/util.js)   *)
(*   - NoiseGenerator      (src/unnamed/part_004)                          *)
(*   - TerrainChunk, TerrainChunkManager (src/unnamed/part_005)            *)
(*                                                                         *)
(* Numbers.  World coordinates are integers in the model; every input is   *)
(* chosen so that the halvings of the quadtree are exact.  A JavaScript    *)
(* number that may be non-finite (a viewer coordinate, a seed) is a        *)
(* sequence: <<n>> is the finite number n, <<>> is NaN / undefined /       *)
(* +-Infinity.                                                             *)
(***************************************************************************)
EXTENDS Integers, Sequences, FiniteSets, TLC

(***************************************************************************)
(* Program constants.                                                      *)
(***************************************************************************)
\* TerrainChunkManager._chunkSize
ChunkSize == 128
\* updateQuadTree: const QUADTREE_SIZE = 256
QUADTREE_SIZE == 256
\* updateFixedGrid: const FIXED_GRID_SIZE = 2
FIXED_GRID_SIZE == 2

(***************************************************************************)
(* Bounds of the model.                                                    *)
(***************************************************************************)
\* query points of the stand-alone quadtree: -TreeGrid..TreeGrid steps per axis
TreeGrid == 3
\* insert calls on one QuadTree object
MaxInserts == 2

\* update(deltaTime) and onNoiseChange calls in one run
MaxOps == 3
\* calls on a stand-alone NoiseGenerator, mulberry32 closure or TerrainChunk in
\* one run, and ticks of one run of SpecPolicies
MaxCalls == 2
\* entries of a dictionary handed to DictIntersection / DictDifference
MaxDictLen == 2
\* TerrainChunkManager._chunkSegments is 64 in the source; the height fields of
\* the model are built with this many segments (sample coordinates are kept as
\* exact fractions over it, so any value works)
ChunkSegments == 1

VARIABLES
    \* ---- stand-alone QuadTree object (SpecTree) ----
    tree,       \* QuadTree._root
    minNode,    \* QuadTree._minNodeSize
    point,      \* the position of the last insert, <<>> before the first
    inserts,    \* number of insert calls so far
    leaves,     \* the result of the last getChildren call
    \* ---- TerrainChunkManager and the objects it owns ----
    viewer,       \* what _FPSPosition() returned at the last tick
    cell,         \* what _cellIndex returned at the last tick, <<>> if not called
    chunks,       \* TerrainChunkManager._chunks: an ordered dictionary key -> record
    objs,         \* every TerrainChunk object ever constructed, by identity
    texs,         \* every THREE.DataTexture ever constructed, by identity
    ng,           \* the NoiseGenerator object
    noiseParams,  \* TerrainChunkManager._noiseParams (the GUI's noise object)
    alive,        \* FALSE after TerrainChunkManager.dispose (_group, _noiseGenerator null)
    lastOp,       \* the last handler that ran: "update", "noise", "dispose", "throw"
    ops,          \* update and onNoiseChange calls so far
    \* ---- stand-alone objects of util.js and of the noise module ----
    gen,          \* a NoiseGenerator object
    rnd,          \* the closure returned by mulberry32: its captured state
    probe         \* the last call on a stand-alone object: arguments and outcome

treeVars == <<tree, minNode, point, inserts, leaves>>
mgrVars == <<viewer, cell, chunks, objs, texs, ng, noiseParams, alive, lastOp, ops>>
unitVars == <<gen, rnd, probe>>
vars == <<treeVars, mgrVars, unitVars>>

(***************************************************************************)
(* THREE.Box2 / THREE.Vector2 as used by the QuadTree.                     *)
(***************************************************************************)
Box2(min, max) == [min |-> min, max |-> max]

\* Box2.getCenter: (min + max) * 0.5
Box2GetCenter(b) == << (b.min[1] + b.max[1]) \div 2, (b.min[2] + b.max[2]) \div 2 >>

\* Box2.getSize: max - min
Box2GetSize(b) == << b.max[1] - b.min[1], b.max[2] - b.min[2] >>

\* the node literal of the constructor and of createChildren
MakeNode(b) ==
    [bounds |-> b, children |-> <<>>, center |-> Box2GetCenter(b), size |-> Box2GetSize(b)]

\* Vector2.distanceToSquared
DistSq(a, p) == (a[1] - p[1]) * (a[1] - p[1]) + (a[2] - p[2]) * (a[2] - p[2])

\* child.center.distanceTo(position) < child.size.x, both sides non-negative
DistLess(c, p, s) == s > 0 /\ DistSq(c, p) < s * s

\* QuadTree.constructor
NewQuadTree(min, max) == MakeNode(Box2(min, max))

\* mutant: the bottom right box runs up to the parent's max corner
CreateChildrenTallB2(child) ==
    LET midpoint == Box2GetCenter(child.bounds)
        b1 == Box2(child.bounds.min, midpoint)
        b2 == Box2(<<midpoint[1], child.bounds.min[2]>>, child.bounds.max)
        b3 == Box2(<<child.bounds.min[1], midpoint[2]>>, <<midpoint[1], child.bounds.max[2]>>)
        b4 == Box2(midpoint, child.bounds.max)
    IN  << MakeNode(b1), MakeNode(b2), MakeNode(b3), MakeNode(b4) >>

\* createChildren: bottom left, bottom right, top left, top right
CreateChildren(child) ==
    LET midpoint == Box2GetCenter(child.bounds)
        b1 == Box2(child.bounds.min, midpoint)
        b2 == Box2(<<midpoint[1], child.bounds.min[2]>>, <<child.bounds.max[1], midpoint[2]>>)
        b3 == Box2(<<child.bounds.min[1], midpoint[2]>>, <<midpoint[1], child.bounds.max[2]>>)
        b4 == Box2(midpoint, child.bounds.max)
    IN  << MakeNode(b1), MakeNode(b2), MakeNode(b3), MakeNode(b4) >>

\* mutant: the minimum-size test lets a node of exactly the minimum size split
ShouldSplitGE(child, position, minNodeSize) ==
    DistLess(child.center, position, child.size[1]) /\ child.size[1] >= minNodeSize

\* mutant: the distance test is lost, every node above the minimum size splits
ShouldSplitNoDist(child, position, minNodeSize) ==
    child.size[1] > minNodeSize

\* mutant: the distance is compared with half the node's size
ShouldSplitHalfDist(child, position, minNodeSize) ==
    /\ child.size[1] > 0
    /\ 4 * DistSq(child.center, position) < child.size[1] * child.size[1]
    /\ child.size[1] > minNodeSize

\* the condition of insertRecursive
ShouldSplit(child, position, minNodeSize) ==
    DistLess(child.center, position, child.size[1]) /\ child.size[1] > minNodeSize

\* insertRecursive: a node that is not split keeps the children it has
RECURSIVE InsertRecursive(_, _, _)
InsertRecursive(child, position, minNodeSize) ==
    IF ShouldSplit(child, position, minNodeSize)
    THEN LET cs == CreateChildren(child)
         IN  [child EXCEPT !.children =
                 [i \in 1..4 |-> InsertRecursive(cs[i], position, minNodeSize)]]
    ELSE child

\* getChildrenRecursive: the leaves, depth first
RECURSIVE GetChildrenRecursive(_)
GetChildrenRecursive(node) ==
    IF Len(node.children) = 0
    THEN << node >>
    ELSE LET RECURSIVE Cat(_)
             Cat(i) == IF i > Len(node.children) THEN <<>>
                       ELSE GetChildrenRecursive(node.children[i]) \o Cat(i + 1)
         IN  Cat(1)

\* every node of a tree
RECURSIVE NodesOf(_)
NodesOf(node) ==
    {node} \cup UNION { NodesOf(node.children[i]) : i \in 1..Len(node.children) }

(***************************************************************************)
(* JavaScript numbers that may be non-finite.                              *)
(***************************************************************************)
Fin(n) == <<n>>
NaN == <<>>
\* the other values Number.isFinite rejects
PosInf == <<1, 0>>
NegInf == <<-1, 0>>
Undefined == <<0, 0, 0>>
\* Number.isFinite
IsFinite(v) == Len(v) = 1
Val(v) == v[1]

(***************************************************************************)
(* util.js                                                                 *)
(***************************************************************************)
\* An unsigned 32-bit value is the pair <<high 16 bits, low 16 bits>>.
\* n >>> 0 for an integer n
ToUint32(n) == << (n \div 65536) % 65536, n % 65536 >>

\* mutant: a non-finite seed becomes 0 instead of 1
ToUint32SeedZero(seed) ==
    IF ~IsFinite(seed) THEN <<0, 0>>
    ELSE LET normalized == Val(seed)
         IN  IF ToUint32(normalized) = <<0, 0>> THEN <<0, 1>> ELSE ToUint32(normalized)

\* toUint32Seed: (Math.floor(seed) >>> 0) || 1, and 1 for a non-finite seed
ToUint32Seed(seed) ==
    IF ~IsFinite(seed) THEN <<0, 1>>
    ELSE LET normalized == Val(seed)
         IN  IF ToUint32(normalized) = <<0, 0>> THEN <<0, 1>> ELSE ToUint32(normalized)

\* the constant 0x6D2B79F5 of mulberry32
MulberryIncrement == 1831565813

\* let state = toUint32Seed(seed): the number hi * 65536 + lo as <<hi, lo>>
Mulberry32(seed) == [state |-> ToUint32Seed(seed)]

\* state += 0x6D2B79F5: a JavaScript number addition, nothing is truncated
MulberryAdvance(r) ==
    LET lo == r.state[2] + (MulberryIncrement % 65536)
        hi == r.state[1] + (MulberryIncrement \div 65536) + (lo \div 65536)
    IN  [state |-> <<hi, lo % 65536>>]

\* the value returned by a call that has advanced the state to r.state: every
\* bit operation on t first reduces it modulo 2^32, so the result is a function
\* of the low 32 bits of the state; it is kept as the term of those bits
MulberryOutput(r) == [mixed |-> <<r.state[1] % 65536, r.state[2]>>]

\* the closure after k calls and the k values returned, from mulberry32(seed)
RECURSIVE MulberryRun(_, _)
MulberryRun(seed, k) ==
    IF k = 0 THEN [rnd |-> Mulberry32(seed), out |-> <<>>]
    ELSE LET prev == MulberryRun(seed, k - 1)
             r    == MulberryAdvance(prev.rnd)
         IN  [rnd |-> r, out |-> Append(prev.out, MulberryOutput(r))]

(***************************************************************************)
(* A JavaScript object used as a dictionary: its entries in insertion      *)
(* order, <<[k |-> key, v |-> value], ...>>, no key twice.                 *)
(***************************************************************************)
DictKeys(d) == { d[i].k : i \in 1..Len(d) }

\* k in d
DictHas(d, k) == \E i \in 1..Len(d) : d[i].k = k

\* d[k]
DictGet(d, k) == d[CHOOSE i \in 1..Len(d) : d[i].k = k].v

\* d[k] = v
DictSet(d, k, v) ==
    IF DictHas(d, k)
    THEN [i \in 1..Len(d) |-> IF d[i].k = k THEN [k |-> k, v |-> v] ELSE d[i]]
    ELSE Append(d, [k |-> k, v |-> v])

\* delete d[k]
DictDelete(d, k) ==
    LET Keep(e) == e.k # k IN SelectSeq(d, Keep)

\* mutant: the filter on dictA is lost, every entry of dictA is returned
DictIntersectionAll(dictA, dictB) == dictA

\* mutant: the common keys are mapped to the values of dictB
DictIntersectionOfB(dictA, dictB) ==
    LET InA(e) == DictHas(dictA, e.k) IN SelectSeq(dictB, InA)

\* DictIntersection: for (k in dictB) if (k in dictA) intersection[k] = dictA[k]
DictIntersection(dictA, dictB) ==
    LET InA(e) == DictHas(dictA, e.k)
        common == SelectSeq(dictB, InA)
    IN  [i \in 1..Len(common) |-> [k |-> common[i].k, v |-> DictGet(dictA, common[i].k)]]

\* mutant: the keys of dictB are not deleted
DictDifferenceNone(dictA, dictB) == dictA

\* DictDifference: diff = {...dictA}; for (k in dictB) delete diff[k]
DictDifference(dictA, dictB) ==
    LET NotInB(e) == ~DictHas(dictB, e.k) IN SelectSeq(dictA, NotInB)

\* the object left by the assignments d[es[1].k] = es[1].v; d[es[2].k] = es[2].v; ...
\* on an empty object: a key keeps the place of its first assignment and the
\* value of its last
DictFromSeq(es) ==
    LET idx == [i \in 1..Len(es) |-> i]
        IsFirst(i) == \A j \in 1..(i - 1) : es[j].k # es[i].k
        firsts == SelectSeq(idx, IsFirst)
        Last(k) == CHOOSE j \in 1..Len(es) :
                      es[j].k = k /\ \A m \in (j + 1)..Len(es) : es[m].k # k
    IN  [n \in 1..Len(firsts) |-> [k |-> es[firsts[n]].k, v |-> es[Last(es[firsts[n]].k)].v]]

(***************************************************************************)
(* NoiseGenerator.  A primitive (SimplexGenerator, PerlinGenerator) is a   *)
(* deterministic function of the mulberry32 state it was constructed from, *)
(* toUint32Seed(seed); the model keeps that state as the primitive.  A     *)
(* sample is kept as the term of everything get2D reads: the noise type,   *)
(* the primitive, the fractal parameters and the coordinates.              *)
(***************************************************************************)
\* _initializeNoise: params.guiParams.noise
DefaultNoiseParams ==
    [noiseType |-> "simplex", scale |-> 64, octaves |-> 6, persistence |-> <<1, 2>>,
     lacunarity |-> 2, exponentiation |-> <<39, 10>>, height |-> 16, seed |-> Fin(1)]

\* { simplex: new SimplexGenerator(seed), perlin: new PerlinGenerator(seed) }
Generators(seed) == [simplex |-> ToUint32Seed(seed), perlin |-> ToUint32Seed(seed)]

\* NoiseGenerator.constructor
NewNoiseGenerator(params) ==
    [type |-> params.noiseType, scale |-> params.scale, octaves |-> params.octaves,
     persistence |-> params.persistence, lacunarity |-> params.lacunarity,
     exponentiation |-> params.exponentiation, height |-> params.height,
     seed |-> params.seed, noise |-> Generators(params.seed), builds |-> 1]

\* mutant: the generators are always rebuilt, from the seed of the call before
SetParamsStale(g, params) ==
    [type |-> params.noiseType, scale |-> params.scale, octaves |-> params.octaves,
     persistence |-> params.persistence, lacunarity |-> params.lacunarity,
     exponentiation |-> params.exponentiation, height |-> params.height,
     seed |-> params.seed, noise |-> Generators(g.seed), builds |-> g.builds + 1]

\* NoiseGenerator.setParams
SetParams(g, params) ==
    LET shouldRebuildGenerators == IsFinite(params.seed) /\ params.seed # g.seed
    IN  [type |-> params.noiseType, scale |-> params.scale, octaves |-> params.octaves,
         persistence |-> params.persistence, lacunarity |-> params.lacunarity,
         exponentiation |-> params.exponentiation, height |-> params.height,
         seed |-> params.seed,
         noise |-> IF shouldRebuildGenerators THEN Generators(params.seed) ELSE g.noise,
         builds |-> IF shouldRebuildGenerators THEN g.builds + 1 ELSE g.builds]

\* a coordinate is an exact fraction <<num, den>>; <<>> is NaN, <<1, 0>> and
\* <<-1, 0>> are +-Infinity
CoordFinite(c) == Len(c) = 2 /\ c[2] # 0

\* how a get2D / get3D call on coordinates cs ends: "Error" is the thrown
\* Error("invalid coordinate parameter"), "TypeError" is noiseFunc.get2D on the
\* undefined this._noise[this._type] in the first octave
SampleOutcome(g, cs) ==
    IF \E i \in 1..Len(cs) : ~CoordFinite(cs[i]) THEN "Error"
    ELSE IF g.octaves > 0 /\ g.type \notin DOMAIN g.noise THEN "TypeError"
    ELSE "none"

\* what a completed get2D / get3D call returns: with no octave total is 0 / 0
\* and the result NaN; otherwise the term of everything the call reads
SampleValue(g, cs) ==
    IF g.octaves <= 0 THEN [kind |-> "NaN"]
    ELSE [kind |-> g.type, prim |-> g.noise[g.type],
          fbm |-> <<g.scale, g.octaves, g.persistence, g.lacunarity, g.exponentiation,
                    g.height>>,
          x |-> cs[1], y |-> cs[2]] @@ (IF Len(cs) = 3 THEN [z |-> cs[3]] ELSE <<>>)

\* NoiseGenerator.get2D fails
Get2DThrows(g, x, y) == SampleOutcome(g, <<x, y>>) # "none"

\* NoiseGenerator.get2D when it completes
Get2D(g, x, y) == SampleValue(g, <<x, y>>)

\* NoiseGenerator.get3D fails
Get3DThrows(g, x, y, z) == SampleOutcome(g, <<x, y, z>>) # "none"

\* NoiseGenerator.get3D when it completes
Get3D(g, x, y, z) == SampleValue(g, <<x, y, z>>)

(***************************************************************************)
(* Height map textures.                                                    *)
(***************************************************************************)
\* mutant: no border, one sample per vertex
ResolutionNoBorder == ChunkSegments + 1

\* resolution = this._chunkSegments + 3
Resolution == ChunkSegments + 3

\* mutant: the grid starts on the chunk's lower bound
SampleCoordNoBorder(center, chunkSize, i) ==
    << 2 * center * ChunkSegments - chunkSize * ChunkSegments + 2 * i * chunkSize,
       2 * ChunkSegments >>

\* center - chunkSize / 2 - sampleStep + i * sampleStep with sampleStep =
\* chunkSize / segments, as the exact fraction <<numerator, 2 * segments>>
SampleCoord(center, chunkSize, i) ==
    << 2 * center * ChunkSegments - chunkSize * ChunkSegments - 2 * chunkSize
           + 2 * i * chunkSize,
       2 * ChunkSegments >>

\* the Float32Array filled by _generateHeightMapTexture, row-major
HeightData(g, centerX, centerY, chunkSize) ==
    [n \in 1..(Resolution * Resolution) |->
        LET row == (n - 1) \div Resolution
            col == (n - 1) % Resolution
        IN  Get2D(g, SampleCoord(centerX, chunkSize, col), SampleCoord(centerY, chunkSize, row))]

\* _generateHeightMapTexture fails: the noise generator is gone or get2D fails
GenerateThrows(g, isAlive, centerX, centerY, chunkSize) ==
    \/ ~isAlive
    \/ Get2DThrows(g, SampleCoord(centerX, chunkSize, 0), SampleCoord(centerY, chunkSize, 0))

\* new THREE.DataTexture(data, resolution, resolution, ...)
NewTexture(g, centerX, centerY, chunkSize) ==
    [data |-> HeightData(g, centerX, centerY, chunkSize), width |-> Resolution,
     height |-> Resolution, disposeCalls |-> 0]

(***************************************************************************)
(* TerrainChunk.  A heap S = [chunks, objs, texs, threw, ...] is threaded  *)
(* through the statements of a handler; a texture or chunk is named by its *)
(* index in texs or objs, 0 is null.                                       *)
(***************************************************************************)
\* HeightMap.constructor fails
HeightMapThrows(chunkSize, chunkSegments) == chunkSize < 1 \/ chunkSegments < 1

\* TerrainChunk.constructor: the mesh is added to params.group
NewTerrainChunk(position, chunkSize, texture) ==
    [mesh |-> TRUE, inGroup |-> TRUE, heightMap |-> TRUE, heightMapTexture |-> texture,
     position |-> position, chunkSize |-> chunkSize,
     disposeCalls |-> 0, setTextureCalls |-> 0]

\* mutant: the new texture is dropped, the chunk keeps the one it has
ChunkSetTextureKeep(S, c, texture) ==
    [S EXCEPT !.objs[c].setTextureCalls = @ + 1]

\* mutant: a null texture is not rejected, it replaces the texture in use
ChunkSetTextureNoNullCheck(S, c, texture) ==
    LET o   == S.objs[c]
        old == o.heightMapTexture
        S1  == [S EXCEPT !.objs[c].setTextureCalls = @ + 1]
    IN  IF ~o.heightMap THEN [S1 EXCEPT !.threw = TRUE]
        ELSE IF old = texture THEN S1
        ELSE LET S2 == [S1 EXCEPT !.objs[c].heightMapTexture = texture]
             IN  IF old # 0 THEN [S2 EXCEPT !.texs[old].disposeCalls = @ + 1] ELSE S2

\* TerrainChunk.setTexture(texture) on chunk object c
ChunkSetTexture(S, c, texture) ==
    LET o   == S.objs[c]
        old == o.heightMapTexture
        S1  == [S EXCEPT !.objs[c].setTextureCalls = @ + 1]
    IN  IF ~o.heightMap \/ texture = 0 THEN [S1 EXCEPT !.threw = TRUE]
        ELSE IF old = texture THEN S1
        ELSE LET S2 == [S1 EXCEPT !.objs[c].heightMapTexture = texture]
             IN  IF old # 0 THEN [S2 EXCEPT !.texs[old].disposeCalls = @ + 1] ELSE S2

\* TerrainChunk.dispose() on chunk object c
ChunkDispose(S, c) ==
    LET o  == S.objs[c]
        S1 == [S EXCEPT !.objs[c] =
                  [o EXCEPT !.mesh = FALSE, !.inGroup = FALSE, !.heightMap = FALSE,
                            !.heightMapTexture = 0, !.disposeCalls = @ + 1]]
    IN  IF o.heightMapTexture # 0
        THEN [S1 EXCEPT !.texs[o.heightMapTexture].disposeCalls = @ + 1]
        ELSE S1

(***************************************************************************)
(* TerrainChunkManager.                                                    *)
(***************************************************************************)
\* _key
Key(x, y) == ToString(x) \o "." \o ToString(y)

\* Math.round; every centre of the model is an integer
Round(v) == v

\* mutant: the y coordinate is left out of the key
QuadTreeKeyNoY(centerX, centerY, size) ==
    ToString(Round(centerX)) \o "[" \o ToString(size) \o "]"

\* _quadTreeKey
QuadTreeKey(centerX, centerY, size) ==
    ToString(Round(centerX)) \o "." \o ToString(Round(centerY)) \o "[" \o ToString(size) \o "]"

\* texture = _generateHeightMapTexture(...); new TerrainChunk({... heightMapTexture: texture});
\* S.made is the chunk object constructed (0 if the statements threw)
MakeChunk(S, g, isAlive, centerX, centerY, chunkSize) ==
    IF GenerateThrows(g, isAlive, centerX, centerY, chunkSize)
    THEN [S EXCEPT !.threw = TRUE, !.made = 0]
    ELSE LET S1 == [S EXCEPT !.texs = Append(@, NewTexture(g, centerX, centerY, chunkSize))]
         IN  IF HeightMapThrows(chunkSize, ChunkSegments)
             THEN [S1 EXCEPT !.threw = TRUE, !.made = 0]
             ELSE [S1 EXCEPT !.objs = Append(@, NewTerrainChunk(<<centerX, centerY>>,
                                                         chunkSize, Len(S1.texs))),
                             !.made = Len(S.objs) + 1]

\* _addChunk(x, y)
AddChunk(S, g, isAlive, x, y) ==
    LET centerX == x * ChunkSize
        centerY == y * ChunkSize
        S1 == MakeChunk(S, g, isAlive, centerX, centerY, ChunkSize)
    IN  IF S1.threw THEN S1
        ELSE [S1 EXCEPT !.chunks = DictSet(@, Key(x, y),
                 [position |-> <<x, y>>, center |-> <<centerX, centerY>>,
                  size |-> ChunkSize, chunk |-> S1.made])]

\* _cellIndex fails: a coordinate is not finite
CellIndexThrows(pos) ==
    LET px == pos.x
        py == IF IsFinite(pos.z) THEN pos.z ELSE pos.y
    IN  ~IsFinite(px) \/ ~IsFinite(py)

\* mutant: the half-chunk offset is missing
CellIndexNoOffset(pos) ==
    LET px == pos.x
        py == IF IsFinite(pos.z) THEN pos.z ELSE pos.y
    IN  << Val(px) \div ChunkSize, -(Val(py) \div ChunkSize) >>

\* _cellIndex
CellIndex(pos) ==
    LET px == pos.x
        py == IF IsFinite(pos.z) THEN pos.z ELSE pos.y
        xp == Val(px) + ChunkSize \div 2
        yp == Val(py) + ChunkSize \div 2
        x  == xp \div ChunkSize
        y  == -(yp \div ChunkSize)
    IN  <<x, y>>

\* for (const k in recycle) { recycle[k].chunk.dispose(); delete this._chunks[k]; }
Recycle(S, recycle) ==
    LET RECURSIVE Loop(_, _)
        Loop(T, i) ==
            IF i > Len(recycle) THEN T
            ELSE CHOOSE R \in { Loop(T1, i + 1) :
                     T1 \in { [ChunkDispose(T, recycle[i].v.chunk)
                                  EXCEPT !.chunks = DictDelete(@, recycle[i].k)] } } : TRUE
    IN  Loop(S, 1)

\* updatedSingle
UpdatedSingle(S, g, isAlive, pos) ==
    IF CellIndexThrows(pos) THEN [S EXCEPT !.threw = TRUE]
    ELSE LET c   == CellIndex(pos)
             key == Key(c[1], c[2])
             S1  == [S EXCEPT !.cell = c]
         IN  IF DictHas(S.chunks, key) THEN S1
             ELSE AddChunk(S1, g, isAlive, c[1], c[2])

\* the keys object of updateFixedGrid: x is the outer loop, y the inner
FixedGridKeys(xc, yc) ==
    LET n == 2 * FIXED_GRID_SIZE + 1
    IN  DictFromSeq([i \in 1..(n * n) |->
            LET x == ((i - 1) \div n) - FIXED_GRID_SIZE
                y == ((i - 1) % n) - FIXED_GRID_SIZE
            IN  [k |-> Key(x + xc, y + yc), v |-> [position |-> <<x + xc, y + yc>>]]])

\* updateFixedGrid
UpdateFixedGrid(S, g, isAlive, pos) ==
    IF CellIndexThrows(pos) THEN [S EXCEPT !.threw = TRUE]
    ELSE LET c          == CellIndex(pos)
             keys       == FixedGridKeys(c[1], c[2])
             difference == DictDifference(keys, S.chunks)
             recycle    == DictDifference(S.chunks, keys)
             S1         == Recycle([S EXCEPT !.cell = c], recycle)
             RECURSIVE Add(_, _)
             Add(T, i) ==
                 IF i > Len(difference) \/ T.threw THEN T
                 ELSE IF DictHas(T.chunks, difference[i].k) THEN Add(T, i + 1)
                 ELSE CHOOSE R \in { Add(T1, i + 1) :
                          T1 \in { AddChunk(T, g, isAlive, difference[i].v.position[1],
                                            difference[i].v.position[2]) } } : TRUE
         IN  Add(S1, 1)

\* quadTree.insert(this._FPSPosition()): new THREE.Vector2(position.x, position.y);
\* a distance to a non-finite position is less than nothing
QuadTreeInsert(root, pos, minNodeSize) ==
    IF IsFinite(pos.x) /\ IsFinite(pos.y)
    THEN InsertRecursive(root, <<Val(pos.x), Val(pos.y)>>, minNodeSize)
    ELSE root

\* the leaves of the quadtree updateQuadTree builds for a viewer position
QuadTreeLeaves(pos) ==
    GetChildrenRecursive(
        QuadTreeInsert(NewQuadTree(<<-QUADTREE_SIZE, -QUADTREE_SIZE>>,
                                   <<QUADTREE_SIZE, QUADTREE_SIZE>>), pos, ChunkSize))

\* mutant: the centre is copied without inverting the sign of y
QuadTreeDesiredNoFlip(children) ==
    DictFromSeq([i \in 1..Len(children) |->
        LET center     == Box2GetCenter(children[i].bounds)
            dimensions == Box2GetSize(children[i].bounds)
        IN  [k |-> QuadTreeKey(center[1], center[2], dimensions[1]),
             v |-> [center |-> center, bounds |-> children[i].bounds,
                    dimensions |-> dimensions]]])

\* the newTerrainChunks object built from the leaves
QuadTreeDesired(children) ==
    DictFromSeq([i \in 1..Len(children) |->
        LET center       == Box2GetCenter(children[i].bounds)
            dimensions   == Box2GetSize(children[i].bounds)
            chunkCenterX == center[1]
            chunkCenterY == -center[2]
            chunkWidth   == dimensions[1]
        IN  [k |-> QuadTreeKey(chunkCenterX, chunkCenterY, chunkWidth),
             v |-> [center |-> <<chunkCenterX, chunkCenterY>>,
                    bounds |-> children[i].bounds,
                    dimensions |-> dimensions]]])

\* updateQuadTree
UpdateQuadTree(S, g, isAlive, pos) ==
    LET desired      == QuadTreeDesired(QuadTreeLeaves(pos))
        intersection == DictIntersection(S.chunks, desired)
        difference   == DictDifference(desired, S.chunks)
        recycle      == DictDifference(S.chunks, desired)
        S1           == Recycle(S, recycle)
        \* T.chunks is this._chunks, T.new is newTerrainChunks
        RECURSIVE Add(_, _)
        Add(T, i) ==
            IF i > Len(difference) \/ T.threw THEN T
            ELSE LET d  == difference[i].v
                     T1 == MakeChunk(T, g, isAlive, d.center[1], d.center[2], d.dimensions[1])
                 IN  IF T1.threw THEN T1
                     ELSE CHOOSE R \in { Add(T2, i + 1) :
                              T2 \in { [T1 EXCEPT !.new = DictSet(@, difference[i].k,
                                           [center |-> d.center, size |-> d.dimensions[1],
                                            chunk |-> T1.made])] } } : TRUE
        S2 == Add([S1 EXCEPT !.new = intersection], 1)
    IN  IF S2.threw THEN S2 ELSE [S2 EXCEPT !.chunks = S2.new]

\* onNoiseChange; the GUI has stored the edited values in this._noiseParams
NoiseChange(S, g, isAlive) ==
    LET RECURSIVE Loop(_, _)
        Loop(T, i) ==
            IF i > Len(T.chunks) \/ T.threw THEN T
            ELSE LET chunkData == T.chunks[i].v
                     center == IF "center" \in DOMAIN chunkData THEN chunkData.center
                               ELSE << chunkData.position[1] * ChunkSize,
                                       chunkData.position[2] * ChunkSize >>
                     size == IF "size" \in DOMAIN chunkData THEN chunkData.size ELSE ChunkSize
                 IN  IF GenerateThrows(g, isAlive, center[1], center[2], size)
                     THEN [T EXCEPT !.threw = TRUE]
                     ELSE LET T1 == [T EXCEPT !.texs =
                                        Append(@, NewTexture(g, center[1], center[2], size))]
                          IN  CHOOSE R \in { Loop(T2, i + 1) :
                                  T2 \in { ChunkSetTexture(T1, chunkData.chunk, Len(T1.texs)) } } : TRUE
    IN  Loop(S, 1)

\* TerrainChunkManager.dispose
ManagerDispose(S) ==
    LET RECURSIVE Loop(_, _)
        Loop(T, i) ==
            IF i > Len(S.chunks) THEN T
            ELSE CHOOSE R \in { Loop(T1, i + 1) :
                     T1 \in { ChunkDispose(T, S.chunks[i].v.chunk) } } : TRUE
    IN  [Loop(S, 1) EXCEPT !.chunks = <<>>]

(***************************************************************************)
(* The state machine.  A tick reads the viewer position from the           *)
(* controller; the positions are drawn from ViewerPositions.               *)
(***************************************************************************)
ViewerPositions ==
    { [x |-> Fin(0),    y |-> Fin(0),   z |-> NaN],
      [x |-> Fin(64),   y |-> Fin(0),   z |-> NaN],
      [x |-> Fin(-200), y |-> Fin(200), z |-> Fin(-64)],
      [x |-> NaN,       y |-> Fin(0),   z |-> Fin(0)] }

\* the values the GUI (or any holder of guiParams.noise) stores before onNoiseChange
NoiseParamChoices ==
    { DefaultNoiseParams,
      [DefaultNoiseParams EXCEPT !.noiseType = "perlin"],
      [DefaultNoiseParams EXCEPT !.seed = Fin(2)] }

\* the manager's part of a handler's heap
Heap == [chunks |-> chunks, objs |-> objs, texs |-> texs, cell |-> cell,
         threw |-> FALSE, made |-> 0, new |-> <<>>]

\* what a handler leaves behind
Commit(S, op) ==
    /\ chunks' = S.chunks
    /\ objs' = S.objs
    /\ texs' = S.texs
    /\ cell' = S.cell
    /\ lastOp' = IF S.threw THEN "throw" ELSE op

TreeIdle ==
    /\ tree = NewQuadTree(<<0, 0>>, <<0, 0>>)
    /\ minNode = 0
    /\ point = <<>>
    /\ inserts = 0
    /\ leaves = <<>>

\* TerrainChunkManager.constructor
InitManager ==
    /\ viewer = [x |-> Fin(0), y |-> Fin(0), z |-> Fin(0)]
    /\ cell = <<>>
    /\ chunks = <<>>
    /\ objs = <<>>
    /\ texs = <<>>
    /\ noiseParams = DefaultNoiseParams
    /\ ng = NewNoiseGenerator(DefaultNoiseParams)
    /\ alive = TRUE
    /\ lastOp = "init"
    /\ ops = 0

\* no stand-alone object has been constructed
UnitIdle ==
    /\ gen = <<>>
    /\ rnd = <<>>
    /\ probe = [op |-> "none"]

Init == InitManager /\ TreeIdle /\ UnitIdle

\* update(deltaTime) as the source wires it: updatedSingle()
Update ==
    /\ ops < MaxOps
    /\ \E pos \in ViewerPositions :
          /\ viewer' = pos
          /\ \E S \in { UpdatedSingle(Heap, ng, alive, pos) } : Commit(S, "update")
    /\ ops' = ops + 1
    /\ UNCHANGED <<ng, noiseParams, alive, treeVars, unitVars>>

\* update(deltaTime) running the updateFixedGrid policy
UpdateGrid ==
    /\ ops < MaxOps
    /\ \E pos \in ViewerPositions :
          /\ viewer' = pos
          /\ \E S \in { UpdateFixedGrid(Heap, ng, alive, pos) } : Commit(S, "update")
    /\ ops' = ops + 1
    /\ UNCHANGED <<ng, noiseParams, alive, treeVars, unitVars>>

\* update(deltaTime) running the updateQuadTree policy
UpdateQuad ==
    /\ ops < MaxOps
    /\ \E pos \in ViewerPositions :
          /\ viewer' = pos
          /\ \E S \in { UpdateQuadTree(Heap, ng, alive, pos) } : Commit(S, "update")
    /\ ops' = ops + 1
    /\ UNCHANGED <<ng, noiseParams, alive, treeVars, unitVars>>

\* a noise control of the GUI is edited: the value is stored, onNoiseChange runs
OnNoiseChange ==
    /\ ops < MaxOps
    /\ \E p \in NoiseParamChoices :
          /\ noiseParams' = p
          /\ IF alive
             THEN /\ ng' = SetParams(ng, p)
                  /\ \E S \in { NoiseChange(Heap, ng', alive) } : Commit(S, "noise")
             ELSE /\ ng' = ng
                  /\ Commit([Heap EXCEPT !.threw = TRUE], "noise")
    /\ ops' = ops + 1
    /\ UNCHANGED <<viewer, alive, treeVars, unitVars>>

\* TerrainChunkManager.dispose()
Dispose ==
    /\ alive
    /\ alive' = FALSE
    /\ \E S \in { ManagerDispose(Heap) } : Commit(S, "dispose")
    /\ UNCHANGED <<viewer, ng, noiseParams, ops, treeVars, unitVars>>

Next == Update \/ OnNoiseChange \/ Dispose
Spec == Init /\ [][Next]_vars

NextFixedGrid == UpdateGrid \/ OnNoiseChange \/ Dispose
SpecFixedGrid == Init /\ [][NextFixedGrid]_vars

NextQuadTree == UpdateQuad \/ OnNoiseChange \/ Dispose
SpecQuadTree == Init /\ [][NextQuadTree]_vars

(***************************************************************************)
(* SpecPolicies: update() running, tick by tick, any of the three closures *)
(* it defines; probe remembers the closure and the viewer position of the  *)
(* last tick and the value of ops it produced.                             *)
(***************************************************************************)
Policies == { "updatedSingle", "updateFixedGrid", "updateQuadTree" }

\* the body of the closure named policy
PolicyUpdate(policy, S, g, isAlive, pos) ==
    IF policy = "updatedSingle" THEN UpdatedSingle(S, g, isAlive, pos)
    ELSE IF policy = "updateFixedGrid" THEN UpdateFixedGrid(S, g, isAlive, pos)
    ELSE UpdateQuadTree(S, g, isAlive, pos)

InitPolicies ==
    /\ InitManager /\ TreeIdle
    /\ gen = <<>>
    /\ rnd = <<>>
    /\ probe = [op |-> "none", at |-> 0]

\* update(deltaTime) running the closure named policy
Tick(policy) ==
    /\ \E pos \in ViewerPositions :
          /\ viewer' = pos
          /\ \E S \in { PolicyUpdate(policy, Heap, ng, alive, pos) } : Commit(S, "update")
          /\ probe' = [op |-> "tick", at |-> ops + 1, policy |-> policy, pos |-> pos]
    /\ ops' = ops + 1
    /\ UNCHANGED <<ng, noiseParams, alive, treeVars, gen, rnd>>

TickSingle == ops < MaxCalls /\ Tick("updatedSingle")
TickFixedGrid == ops < MaxCalls /\ Tick("updateFixedGrid")
TickQuadTree == ops < MaxCalls /\ Tick("updateQuadTree")

NextPolicies ==
    \/ TickSingle
    \/ TickFixedGrid
    \/ TickQuadTree
    \/ Dispose

SpecPolicies == InitPolicies /\ [][NextPolicies]_vars

(***************************************************************************)
(* SpecFaults: quadtree ticks in which the creation of a chunk may throw.  *)
(* With the fields the constructor sets, the statements of the creation    *)
(* loop throw on the first chunk or on none; an exception raised by the    *)
(* platform (typed-array or GPU resource allocation) can end any           *)
(* iteration, and failAt names the iteration it ends.                      *)
(***************************************************************************)
\* updateQuadTree when iteration failAt of the creation loop throws before its
\* texture is built
UpdateQuadTreeFailing(S, g, isAlive, pos, failAt) ==
    LET desired      == QuadTreeDesired(QuadTreeLeaves(pos))
        intersection == DictIntersection(S.chunks, desired)
        difference   == DictDifference(desired, S.chunks)
        recycle      == DictDifference(S.chunks, desired)
        S1           == Recycle(S, recycle)
        RECURSIVE Add(_, _)
        Add(T, i) ==
            IF i > Len(difference) \/ T.threw THEN T
            ELSE IF i = failAt THEN [T EXCEPT !.threw = TRUE]
            ELSE LET d  == difference[i].v
                     T1 == MakeChunk(T, g, isAlive, d.center[1], d.center[2], d.dimensions[1])
                 IN  IF T1.threw THEN T1
                     ELSE CHOOSE R \in { Add(T2, i + 1) :
                              T2 \in { [T1 EXCEPT !.new = DictSet(@, difference[i].k,
                                           [center |-> d.center, size |-> d.dimensions[1],
                                            chunk |-> T1.made])] } } : TRUE
        S2 == Add([S1 EXCEPT !.new = intersection], 1)
    IN  IF S2.threw THEN S2 ELSE [S2 EXCEPT !.chunks = S2.new]

InitFaults ==
    /\ InitManager /\ TreeIdle
    /\ gen = <<>>
    /\ rnd = <<>>
    /\ probe = [op |-> "none", at |-> 0, failAt |-> 0]

\* update(deltaTime) running updateQuadTree, no platform exception
TickQuad ==
    /\ ops < MaxCalls
    /\ \E pos \in ViewerPositions :
          /\ viewer' = pos
          /\ \E S \in { UpdateQuadTreeFailing(Heap, ng, alive, pos, 0) } : Commit(S, "update")
    /\ probe' = [op |-> "tick", at |-> ops + 1, failAt |-> 0]
    /\ ops' = ops + 1
    /\ UNCHANGED <<ng, noiseParams, alive, treeVars, gen, rnd>>

\* update(deltaTime) running updateQuadTree, the platform throws in the first
\* or the second iteration of the creation loop
TickQuadFails ==
    /\ ops < MaxCalls
    /\ \E pos \in ViewerPositions, failAt \in {1, 2} :
          /\ viewer' = pos
          /\ \E S \in { UpdateQuadTreeFailing(Heap, ng, alive, pos, failAt) } :
                Commit(S, "update")
          /\ probe' = [op |-> "tick", at |-> ops + 1, failAt |-> failAt]
    /\ ops' = ops + 1
    /\ UNCHANGED <<ng, noiseParams, alive, treeVars, gen, rnd>>

NextFaults == TickQuad \/ TickQuadFails \/ Dispose

SpecFaults == InitFaults /\ [][NextFaults]_vars

(***************************************************************************)
(* SpecTree: one QuadTree object, constructed from a square region and a   *)
(* minimum node size, then insert(position) and getChildren().             *)
(***************************************************************************)
RootBoxes == { <<-256, 256>>, <<0, 512>>, <<-192, 192>>, <<-64, 64>> }
MinNodeSizes == { 48, 64, 100, 128, 512 }
TreeCoords == { 80 * i : i \in -TreeGrid..TreeGrid }

InitTree ==
    /\ \E rb \in RootBoxes : tree = NewQuadTree(<<rb[1], rb[1]>>, <<rb[2], rb[2]>>)
    /\ minNode \in MinNodeSizes
    /\ point = <<>>
    /\ inserts = 0
    /\ leaves = <<>>
    /\ InitManager
    /\ UnitIdle

\* QuadTree.insert(position) followed by QuadTree.getChildren()
TreeInsert ==
    /\ inserts < MaxInserts
    /\ \E px \in TreeCoords, py \in TreeCoords :
          /\ point' = <<px, py>>
          /\ tree' = InsertRecursive(tree, <<px, py>>, minNode)
          /\ leaves' = GetChildrenRecursive(tree')
    /\ inserts' = inserts + 1
    /\ UNCHANGED <<minNode, mgrVars, unitVars>>

NextTree == TreeInsert

SpecTree == InitTree /\ [][NextTree]_vars

(***************************************************************************)
(* SpecDict: DictIntersection and DictDifference on two dictionaries, as   *)
(* updateQuadTree calls them on this._chunks and newTerrainChunks.         *)
(***************************************************************************)
DictProbeKeys == { "0.0", "1.0", "0.-1" }
DictProbeValues == { "r1", "r2" }

\* the dictionaries of at most MaxDictLen entries, in every insertion order
DictInputs ==
    { d \in UNION { [1..n -> [k : DictProbeKeys, v : DictProbeValues]] : n \in 0..MaxDictLen } :
        \A i, j \in 1..Len(d) : i # j => d[i].k # d[j].k }

InitDict == InitManager /\ TreeIdle /\ UnitIdle

\* intersection, difference and recycle of updateQuadTree for two dictionaries,
\* once in a run
DictProbe ==
    /\ probe.op = "none"
    /\ \E current \in DictInputs, desired \in DictInputs :
          probe' = [op |-> "dict", current |-> current, desired |-> desired,
                    intersection |-> DictIntersection(current, desired),
                    difference |-> DictDifference(desired, current),
                    recycle |-> DictDifference(current, desired)]
    /\ UNCHANGED <<treeVars, mgrVars, gen, rnd>>

NextDict == DictProbe

SpecDict == InitDict /\ [][NextDict]_vars

(***************************************************************************)
(* SpecNoise: one NoiseGenerator object, constructed from a parameter      *)
(* object, then setParams, get2D and get3D calls.                          *)
(***************************************************************************)
\* parameter objects: the two registered types, a type with no primitive,
\* finite and non-finite seeds, and a generator with no octave
NoiseProbeParams ==
    { DefaultNoiseParams,
      [DefaultNoiseParams EXCEPT !.noiseType = "perlin"],
      [DefaultNoiseParams EXCEPT !.seed = Fin(2)],
      [DefaultNoiseParams EXCEPT !.seed = NaN],
      [DefaultNoiseParams EXCEPT !.seed = PosInf],
      [DefaultNoiseParams EXCEPT !.noiseType = "ridged"],
      [DefaultNoiseParams EXCEPT !.noiseType = "ridged", !.octaves = 0] }

\* sample coordinates: 0, 3/2, NaN, +Infinity, -Infinity
ProbeCoords == { <<0, 1>>, <<3, 2>>, <<>>, <<1, 0>>, <<-1, 0>> }

\* new NoiseGenerator(params)
InitNoise ==
    /\ InitManager /\ TreeIdle
    /\ rnd = <<>>
    /\ \E p \in NoiseProbeParams :
          /\ gen = NewNoiseGenerator(p)
          /\ probe = [op |-> "new", calls |-> 0, params |-> p]

\* gen.setParams(params)
GenSetParams ==
    /\ probe.calls < MaxCalls
    /\ \E p \in NoiseProbeParams :
          /\ gen' = SetParams(gen, p)
          /\ probe' = [op |-> "setParams", calls |-> probe.calls + 1, params |-> p,
                       before |-> gen]
    /\ UNCHANGED <<treeVars, mgrVars, rnd>>

\* gen.get2D(x, y)
GenGet2D ==
    /\ probe.calls < MaxCalls
    /\ \E x \in ProbeCoords, y \in ProbeCoords :
          probe' = [op |-> "get2D", calls |-> probe.calls + 1, at |-> <<x, y>>,
                    outcome |-> SampleOutcome(gen, <<x, y>>),
                    value |-> IF Get2DThrows(gen, x, y) THEN [kind |-> "none"]
                              ELSE Get2D(gen, x, y)]
    /\ UNCHANGED <<treeVars, mgrVars, gen, rnd>>

\* gen.get3D(x, y, z)
GenGet3D ==
    /\ probe.calls < MaxCalls
    /\ \E x \in {<<0, 1>>, <<>>}, y \in {<<3, 2>>, <<1, 0>>}, z \in {<<0, 1>>, <<-1, 0>>} :
          probe' = [op |-> "get3D", calls |-> probe.calls + 1, at |-> <<x, y, z>>,
                    outcome |-> SampleOutcome(gen, <<x, y, z>>),
                    value |-> IF Get3DThrows(gen, x, y, z) THEN [kind |-> "none"]
                              ELSE Get3D(gen, x, y, z)]
    /\ UNCHANGED <<treeVars, mgrVars, gen, rnd>>

NextNoise == GenSetParams \/ GenGet2D \/ GenGet3D

SpecNoise == InitNoise /\ [][NextNoise]_vars

(***************************************************************************)
(* SpecRandom: one closure returned by mulberry32(seed), then calls of it. *)
(***************************************************************************)
\* seeds: small integers of both signs, 16- and 32-bit boundary values, and
\* the values Number.isFinite rejects
SeedInputs ==
    { Fin(n) : n \in (-8)..32 } \cup { Fin(65535), Fin(65536), Fin(2147483647) }
        \cup { NaN, PosInf, NegInf, Undefined }

\* const random = mulberry32(seed)
InitRandom ==
    /\ InitManager /\ TreeIdle
    /\ gen = <<>>
    /\ \E seed \in SeedInputs :
          /\ rnd = Mulberry32(seed)
          /\ probe = [op |-> "mulberry32", seed |-> seed, calls |-> 0, out |-> <<>>]

\* random()
RandomNext ==
    /\ probe.calls < MaxCalls
    /\ rnd' = MulberryAdvance(rnd)
    /\ probe' = [probe EXCEPT !.calls = @ + 1, !.out = Append(@, MulberryOutput(rnd'))]
    /\ UNCHANGED <<treeVars, mgrVars, gen>>

NextRandom == RandomNext

SpecRandom == InitRandom /\ [][NextRandom]_vars

(***************************************************************************)
(* SpecChunk: TerrainChunk objects on their own.  A chunk is built the way *)
(* _addChunk builds it (texture first, then new TerrainChunk), for a chunk *)
(* size and a segment count drawn from BuildSizes and BuildSegments; live  *)
(* chunks then receive setTexture and dispose calls.                       *)
(***************************************************************************)
BuildSizes == { -128, 0, 1, 128 }
BuildSegments == { -4, -3, -1, 0, 1, 2 }

\* how _generateHeightMapTexture ends for a chunk size and a segment count:
\* with resolution = segments + 3 <= 0 no sample is taken; with segments = 0
\* sampleStep = chunkSize / 0 is not finite and neither is the first coordinate
TextureBuildOutcome(g, chunkSize, chunkSegments) ==
    IF chunkSegments + 3 <= 0 THEN "none"
    ELSE LET first == IF chunkSegments = 0 THEN NaN
                      ELSE << -chunkSize * chunkSegments - 2 * chunkSize, 2 * chunkSegments >>
         IN  SampleOutcome(g, <<first, first>>)

\* how texture = _generateHeightMapTexture(...); new TerrainChunk({...}) ends:
\* "HeightMapError" is the Error thrown by HeightMap.constructor
ChunkBuildOutcome(g, chunkSize, chunkSegments) ==
    IF TextureBuildOutcome(g, chunkSize, chunkSegments) # "none"
    THEN TextureBuildOutcome(g, chunkSize, chunkSegments)
    ELSE IF HeightMapThrows(chunkSize, chunkSegments) THEN "HeightMapError"
    ELSE "none"

\* the Error setTexture(texture) throws on chunk object o, "none" if it completes
ChunkSetTextureError(o, texture) ==
    IF ~o.heightMap THEN "height map is not initialized"
    ELSE IF texture = 0 THEN "texture is required"
    ELSE "none"

InitChunk ==
    /\ InitManager /\ TreeIdle
    /\ gen = <<>>
    /\ rnd = <<>>
    /\ probe = [op |-> "none", calls |-> 0]

\* the statements of _addChunk(0, 0) on a manager whose _chunkSize and
\* _chunkSegments hold the drawn values
ChunkBuild ==
    /\ probe.calls < MaxCalls
    /\ \E chunkSize \in BuildSizes, chunkSegments \in BuildSegments :
          LET outcome == ChunkBuildOutcome(ng, chunkSize, chunkSegments)
          IN  probe' = [op |-> "build", calls |-> probe.calls + 1,
                        chunkSize |-> chunkSize, chunkSegments |-> chunkSegments,
                        outcome |-> outcome,
                        textureBuilt |->
                            TextureBuildOutcome(ng, chunkSize, chunkSegments) = "none",
                        recordAdded |-> outcome = "none"]
    /\ UNCHANGED <<treeVars, mgrVars, gen, rnd>>

\* a chunk of the manager's chunk size and segment count is built at a centre
ChunkNew ==
    /\ probe.calls < MaxCalls
    /\ \E center \in { <<0, 0>>, <<128, -128>> } :
          \E S \in { MakeChunk(Heap, ng, TRUE, center[1], center[2], ChunkSize) } :
              /\ objs' = S.objs
              /\ texs' = S.texs
              /\ probe' = [op |-> "new", calls |-> probe.calls + 1, chunk |-> S.made]
    /\ UNCHANGED <<treeVars, viewer, cell, chunks, ng, noiseParams, alive, lastOp, ops,
                   gen, rnd>>

\* chunk.setTexture(texture): texture is null, the texture the chunk holds, or a
\* texture generated for the call
ChunkSetTextureCall ==
    /\ probe.calls < MaxCalls
    /\ \E c \in 1..Len(objs), arg \in {"null", "held", "fresh"} :
          LET o  == objs[c]
              S0 == IF arg = "fresh"
                    THEN [Heap EXCEPT !.texs = Append(@, NewTexture(ng, o.position[1],
                                                        o.position[2], o.chunkSize))]
                    ELSE Heap
              texture == IF arg = "null" THEN 0
                         ELSE IF arg = "held" THEN o.heightMapTexture
                         ELSE Len(S0.texs)
          IN  \E S \in { ChunkSetTexture(S0, c, texture) } :
                  /\ objs' = S.objs
                  /\ texs' = S.texs
                  /\ probe' = [op |-> "setTexture", calls |-> probe.calls + 1, chunk |-> c,
                               texture |-> texture, before |-> o, threw |-> S.threw,
                               error |-> ChunkSetTextureError(o, texture)]
    /\ UNCHANGED <<treeVars, viewer, cell, chunks, ng, noiseParams, alive, lastOp, ops,
                   gen, rnd>>

\* chunk.dispose()
ChunkDisposeCall ==
    /\ probe.calls < MaxCalls
    /\ \E c \in 1..Len(objs) :
          \E S \in { ChunkDispose(Heap, c) } :
              /\ objs' = S.objs
              /\ texs' = S.texs
              /\ probe' = [op |-> "dispose", calls |-> probe.calls + 1, chunk |-> c]
    /\ UNCHANGED <<treeVars, viewer, cell, chunks, ng, noiseParams, alive, lastOp, ops,
                   gen, rnd>>

NextChunk == ChunkBuild \/ ChunkNew \/ ChunkSetTextureCall \/ ChunkDisposeCall

SpecChunk == InitChunk /\ [][NextChunk]_vars

(***************************************************************************)
(* SpecCell: _cellIndex on JavaScript numbers that are not integers.  A    *)
(* coordinate is an integer n (below = FALSE), the largest double smaller  *)
(* than a positive integer n (below = TRUE), or not finite.  Every integer *)
(* and every sum of the model is far below 2^53, so integers are added     *)
(* exactly; the sum of a double just below n and chunkSize / 2 is rounded  *)
(* to the nearest double, ties to the even significand.                    *)
(***************************************************************************)
Dbl(n) == [finite |-> TRUE, int |-> n, below |-> FALSE]
DblBelow(n) == [finite |-> TRUE, int |-> n, below |-> TRUE]
DblNaN == [finite |-> FALSE, int |-> 0, below |-> FALSE]

\* the exponent e of the doubles just below the positive integer n: 2^e < n <= 2^(e+1)
RECURSIVE ExponentBelow(_)
ExponentBelow(n) == IF n <= 2 THEN 0 ELSE 1 + ExponentBelow((n + 1) \div 2)

\* px + this._chunkSize * 0.5.  For the double just below n the exact sum lies
\* just below n + chunkSize/2: it is a double when the doubles below both numbers
\* have one exponent; when the exponent grows, the sum is half way (or closer) to
\* n + chunkSize/2, whose significand is even, and is rounded up to it
AddHalfChunk(v) ==
    IF ~v.below THEN Dbl(v.int + ChunkSize \div 2)
    ELSE IF ExponentBelow(v.int + ChunkSize \div 2) = ExponentBelow(v.int)
         THEN DblBelow(v.int + ChunkSize \div 2)
         ELSE Dbl(v.int + ChunkSize \div 2)

\* Math.floor(v / this._chunkSize): the division by a power of two is exact
FloorDivChunk(v) ==
    IF v.below THEN (v.int - 1) \div ChunkSize ELSE v.int \div ChunkSize

\* _cellIndex fails on the position
CellIndexDoubleThrows(pos) ==
    ~pos.x.finite \/ ~(IF pos.z.finite THEN pos.z ELSE pos.y).finite

\* _cellIndex on doubles
CellIndexDouble(pos) ==
    LET px == pos.x
        py == IF pos.z.finite THEN pos.z ELSE pos.y
    IN  << FloorDivChunk(AddHalfChunk(px)), -FloorDivChunk(AddHalfChunk(py)) >>

CellCoordInputs ==
    { Dbl(n) : n \in { -192, -129, -65, -64, -1, 0, 63, 64, 65, 191, 192 } }
    \cup { DblBelow(n) : n \in { 64, 100, 192 } }

InitCell ==
    /\ InitManager /\ TreeIdle
    /\ gen = <<>>
    /\ rnd = <<>>
    /\ probe = [op |-> "none"]

\* this._cellIndex(pos)
CellProbe ==
    /\ probe.op = "none"
    /\ \E x \in CellCoordInputs \cup {DblNaN}, y \in {Dbl(0), DblBelow(64)},
          z \in CellCoordInputs \cup {DblNaN} :
          LET pos == [x |-> x, y |-> y, z |-> z]
          IN  probe' = [op |-> "cellIndex", pos |-> pos,
                        threw |-> CellIndexDoubleThrows(pos),
                        cell |-> IF CellIndexDoubleThrows(pos) THEN <<>>
                                 ELSE CellIndexDouble(pos)]
    /\ UNCHANGED <<treeVars, mgrVars, gen, rnd>>

NextCell == CellProbe

SpecCell == InitCell /\ [][NextCell]_vars

(***************************************************************************)
(* Geometry used to state the quadtree claims.                             *)
(***************************************************************************)
BoxArea(b) == (b.max[1] - b.min[1]) * (b.max[2] - b.min[2])

BoxInside(a, b) ==
    /\ b.min[1] <= a.min[1] /\ a.max[1] <= b.max[1]
    /\ b.min[2] <= a.min[2] /\ a.max[2] <= b.max[2]

\* the two boxes share interior area
BoxOverlap(a, b) ==
    /\ a.min[1] < b.max[1] /\ b.min[1] < a.max[1]
    /\ a.min[2] < b.max[2] /\ b.min[2] < a.max[2]

RECURSIVE SumArea(_, _)
SumArea(nodes, i) ==
    IF i > Len(nodes) THEN 0 ELSE BoxArea(nodes[i].bounds) + SumArea(nodes, i + 1)

\* the boxes of `nodes` cover `b` exactly: inside, pairwise disjoint, same total area
Tiles(nodes, b) ==
    /\ \A i \in 1..Len(nodes) : BoxInside(nodes[i].bounds, b)
    /\ \A i, j \in 1..Len(nodes) : i < j => ~BoxOverlap(nodes[i].bounds, nodes[j].bounds)
    /\ SumArea(nodes, 1) = BoxArea(b)

\* s = r / 2^k for some integer k >= 0
RECURSIVE IsPow2Fraction(_, _)
IsPow2Fraction(s, r) ==
    \/ s = r
    \/ s < r /\ r % 2 = 0 /\ IsPow2Fraction(s, r \div 2)

(***************************************************************************)
(* C8.  After insert(point) on a fresh tree every leaf returned by         *)
(* getChildren is at distance >= its size.x from the point or has          *)
(* size.x <= minNodeSize, and no node with size.x <= minNodeSize has       *)
(* children.                                                               *)
(***************************************************************************)
C8_Termination ==
    inserts = 1 =>
        /\ \A i \in 1..Len(leaves) :
              \/ DistSq(leaves[i].center, point) >= leaves[i].size[1] * leaves[i].size[1]
              \/ leaves[i].size[1] <= minNode
        /\ \A n \in NodesOf(tree) : n.size[1] <= minNode => Len(n.children) = 0

\* a fresh tree was split down to the minimum: a leaf closer to the point than
\* its size that stays a leaf only because of the minimum, next to a coarser one
C8_Witness ==
    /\ inserts = 1
    /\ \E i \in 1..Len(leaves) :
          /\ DistSq(leaves[i].center, point) < leaves[i].size[1] * leaves[i].size[1]
          /\ leaves[i].size[1] = minNode
    /\ \E i \in 1..Len(leaves) : leaves[i].size[1] > minNode

(***************************************************************************)
(* C9.  After insert(point) every node has 0 or exactly 4 children, the 4  *)
(* children partition their parent's bounds at its midpoint, and the       *)
(* leaves returned by getChildren tile the root bounds exactly (their      *)
(* union is the root square, no two leaves overlap in area).               *)
(***************************************************************************)
C9_Coverage ==
    inserts >= 1 =>
        /\ \A n \in NodesOf(tree) :
              \/ Len(n.children) = 0
              \/ /\ Len(n.children) = 4
                 /\ Tiles(n.children, n.bounds)
                 /\ \A i \in 1..4 :
                       /\ 2 * n.children[i].size[1] = n.size[1]
                       /\ 2 * n.children[i].size[2] = n.size[2]
                       /\ \/ n.children[i].bounds.min = n.center
                          \/ n.children[i].bounds.max = n.center
                          \/ /\ n.children[i].bounds.min[1] = n.center[1]
                             /\ n.children[i].bounds.max[2] = n.center[2]
                          \/ /\ n.children[i].bounds.max[1] = n.center[1]
                             /\ n.children[i].bounds.min[2] = n.center[2]
        /\ Tiles(leaves, tree.bounds)

\* a tree of depth two or more: 7 leaves at least
C9_Witness == inserts >= 1 /\ Len(leaves) >= 7

(***************************************************************************)
(* C10 as stated.  Every leaf produced by insert has size rootSize / 2^k   *)
(* for some k >= 0, and that size is never smaller than minLeafSize.       *)
(***************************************************************************)
C10_Original ==
    inserts >= 1 =>
        \A i \in 1..Len(leaves) :
            /\ IsPow2Fraction(leaves[i].size[1], tree.size[1])
            /\ leaves[i].size[1] >= minNode

(***************************************************************************)
(* C10 amended.  Every leaf produced by insert has size rootSize / 2^k for *)
(* some k >= 0; a leaf other than the root is a half of a node larger than *)
(* minLeafSize, so its size is greater than minLeafSize / 2; and when      *)
(* rootSize is minLeafSize times a power of two no leaf is smaller than    *)
(* minLeafSize.                                                            *)
(***************************************************************************)
C10_LeafSize ==
    inserts >= 1 =>
        \A i \in 1..Len(leaves) :
            /\ IsPow2Fraction(leaves[i].size[1], tree.size[1])
            /\ \/ leaves[i].size[1] = tree.size[1]
               \/ 2 * leaves[i].size[1] > minNode
            /\ IsPow2Fraction(minNode, tree.size[1]) => leaves[i].size[1] >= minNode

\* a split tree whose leaves are smaller than the minimum node size
C10_Witness ==
    /\ inserts >= 1
    /\ \E i \in 1..Len(leaves) :
          /\ leaves[i].size[1] < minNode
          /\ leaves[i].size[1] < tree.size[1]


(***************************************************************************)
(* Vocabulary of the manager claims.                                       *)
(***************************************************************************)
\* the chunk objects that are values of the active map
ActiveObjs == { chunks[i].v.chunk : i \in 1..Len(chunks) }

\* the keys of column x of the fixed-grid neighbourhood centred on row cy
ColumnKeys(x, cy) == { Key(x, cy + dy) : dy \in (-FIXED_GRID_SIZE)..FIXED_GRID_SIZE }

\* the keys of the whole neighbourhood of cell (cx, cy)
NeighbourhoodKeys(cx, cy) ==
    UNION { ColumnKeys(cx + dx, cy) : dx \in (-FIXED_GRID_SIZE)..FIXED_GRID_SIZE }

\* the coordinate _cellIndex reads as the second axis
SecondAxis(pos) == IF IsFinite(pos.z) THEN pos.z ELSE pos.y

\* the leaves of the quadtree built for a viewer position, their centres and widths
LeafSet(pos) == LET ls == QuadTreeLeaves(pos) IN { ls[i] : i \in 1..Len(ls) }
LeafCenter(l) == << (l.bounds.min[1] + l.bounds.max[1]) \div 2,
                    (l.bounds.min[2] + l.bounds.max[2]) \div 2 >>
LeafWidth(l) == l.bounds.max[1] - l.bounds.min[1]

(***************************************************************************)
(* C1.  After update(deltaTime) returns, the active key set equals the     *)
(* desired set for the viewer's position and every chunk outside it has    *)
(* been disposed.  The desired set is read in every way the source offers: *)
(* the viewer's cell, the fixed-grid neighbourhood of that cell, or the    *)
(* leaves of the quadtree.  update() as wired runs updatedSingle only,     *)
(* which never disposes: the statement fails.                              *)
(***************************************************************************)
C1_ActiveEqualsDesired ==
    lastOp = "update" =>
        /\ DictKeys(chunks) \in
              { {Key(cell[1], cell[2])},
                NeighbourhoodKeys(cell[1], cell[2]),
                { QuadTreeKey(LeafCenter(l)[1], -LeafCenter(l)[2], LeafWidth(l)) :
                      l \in LeafSet(viewer) } }
        /\ \A o \in 1..Len(objs) : o \notin ActiveObjs => objs[o].disposeCalls = 1

(***************************************************************************)
(* C2.  Fixed grid, radius R = FIXED_GRID_SIZE: when the active set is the *)
(* full neighbourhood of cell (cx, cy) and a tick finds the viewer in cell *)
(* (cx + 1, cy), the tick disposes exactly the chunks of column cx - R,    *)
(* creates exactly the chunks of column cx + R + 1, and every other chunk  *)
(* keeps its record, its chunk object and that object's texture, with no   *)
(* setTexture call.                                                        *)
(***************************************************************************)
C2_MoveOneCell ==
    [][ ( /\ alive
          /\ Len(cell) = 2
          /\ DictKeys(chunks) = NeighbourhoodKeys(cell[1], cell[2])
          /\ Len(chunks) = Cardinality(NeighbourhoodKeys(cell[1], cell[2]))
          /\ ops' = ops + 1
          /\ lastOp' = "update"
          /\ cell' = <<cell[1] + 1, cell[2]>> )
        =>
        LET cx      == cell[1]
            cy      == cell[2]
            dropped == ColumnKeys(cx - FIXED_GRID_SIZE, cy)
            made    == ColumnKeys(cx + FIXED_GRID_SIZE + 1, cy)
            kept    == DictKeys(chunks) \ dropped
        IN  /\ DictKeys(chunks') = kept \cup made
            /\ Len(chunks') = Cardinality(kept \cup made)
            \* disposed: exactly the chunk objects of column cx - R, once each
            /\ \A o \in 1..Len(objs) :
                  objs'[o].disposeCalls =
                      IF \E k \in dropped : DictGet(chunks, k).chunk = o
                      THEN objs[o].disposeCalls + 1
                      ELSE objs[o].disposeCalls
            /\ \A k \in dropped : objs[DictGet(chunks, k).chunk].disposeCalls = 0
            \* created: one new chunk object per key of column cx + R + 1
            /\ Len(objs') = Len(objs) + Cardinality(made)
            /\ { DictGet(chunks', k).chunk : k \in made } = (Len(objs) + 1)..Len(objs')
            /\ \A k \in made :
                  /\ DictGet(chunks', k).position[1] = cx + FIXED_GRID_SIZE + 1
                  /\ objs'[DictGet(chunks', k).chunk].disposeCalls = 0
            \* kept: same record, same object, same texture, untouched
            /\ \A k \in kept :
                  /\ DictGet(chunks', k) = DictGet(chunks, k)
                  /\ objs'[DictGet(chunks, k).chunk] = objs[DictGet(chunks, k).chunk]
                  /\ texs'[objs[DictGet(chunks, k).chunk].heightMapTexture]
                        = texs[objs[DictGet(chunks, k).chunk].heightMapTexture]
      ]_vars

\* the tick after the move has run: neighbourhood of (1, 0), five chunks disposed
C2_Witness ==
    /\ alive
    /\ lastOp = "update"
    /\ cell = <<1, 0>>
    /\ DictKeys(chunks) = NeighbourhoodKeys(1, 0)
    /\ Len(objs) = 30
    /\ Cardinality({ o \in 1..Len(objs) : objs[o].disposeCalls = 1 }) = 5

C4_Original ==
    lastOp = "update" =>
        /\ Len(chunks) = Cardinality(LeafSet(viewer))
        /\ \A l \in LeafSet(viewer) :
              Cardinality({ j \in 1..Len(chunks) :
                  /\ chunks[j].v.center = LeafCenter(l)
                  /\ chunks[j].v.size = LeafWidth(l) }) = 1

(***************************************************************************)
(* C4.  As the code computes it: after a quadtree tick the active set has  *)
(* exactly one record per leaf of the quadtree built for the viewer's      *)
(* position and no other, the record's size is the width of the leaf's     *)
(* bounds and its centre is (cx, -cy) for the leaf's centre (cx, cy); its  *)
(* key is _quadTreeKey of that centre and size and its chunk object is     *)
(* live, placed at that centre with that size.                             *)
(***************************************************************************)
C4_LeafRecords ==
    lastOp = "update" =>
        /\ Len(chunks) = Cardinality(LeafSet(viewer))
        /\ \A l \in LeafSet(viewer) :
              Cardinality({ j \in 1..Len(chunks) :
                  /\ chunks[j].v.center = << LeafCenter(l)[1], -LeafCenter(l)[2] >>
                  /\ chunks[j].v.size = LeafWidth(l) }) = 1
        /\ \A j \in 1..Len(chunks) :
              LET r == chunks[j].v
              IN  /\ chunks[j].k = QuadTreeKey(r.center[1], r.center[2], r.size)
                  /\ objs[r.chunk].disposeCalls = 0
                  /\ objs[r.chunk].position = r.center
                  /\ objs[r.chunk].chunkSize = r.size

\* a tick for a viewer whose tree is not symmetric in y, after a tick elsewhere
C4_Witness ==
    /\ lastOp = "update"
    /\ viewer.x = Fin(-200)
    /\ Len(chunks) = 7
    /\ \E j \in 1..Len(chunks) : chunks[j].v.center = <<-192, -192>> /\ chunks[j].v.size = 128
    /\ \E o \in 1..Len(objs) : objs[o].disposeCalls = 1


(***************************************************************************)
(* C5.  Every chunk object follows absent -> active -> absent.  In every   *)
(* state no chunk object has had more than one dispose() call and no       *)
(* disposed object is a value of the active map.  In every step, an object *)
(* that leaves the active map has dispose() called on it in that step, for *)
(* the first time; a disposed object stays out of the active map and       *)
(* receives neither setTexture nor another dispose(); and a chunk that is  *)
(* created enters the active map only as a live object.                    *)
(***************************************************************************)
C5_Lifecycle ==
    /\ [](\A o \in 1..Len(objs) :
             /\ objs[o].disposeCalls \in {0, 1}
             /\ o \in ActiveObjs => objs[o].disposeCalls = 0)
    /\ [][ /\ Len(objs') >= Len(objs)
           /\ \A o \in 1..Len(objs) :
                 /\ (o \in ActiveObjs /\ o \notin ActiveObjs')
                       => objs[o].disposeCalls = 0 /\ objs'[o].disposeCalls = 1
                 /\ objs[o].disposeCalls >= 1
                       => /\ o \notin ActiveObjs'
                          /\ objs'[o].setTextureCalls = objs[o].setTextureCalls
                          /\ objs'[o].disposeCalls = objs[o].disposeCalls
                 /\ objs'[o].disposeCalls > objs[o].disposeCalls
                       => objs'[o].setTextureCalls = objs[o].setTextureCalls
                 /\ (o \notin ActiveObjs /\ objs[o].disposeCalls = 0)
                       => o \notin ActiveObjs'
         ]_vars

\* a tick has disposed a chunk, a noise change has then run on the active chunks,
\* and the manager has been disposed
C5_Witness ==
    /\ lastOp = "dispose"
    /\ chunks = <<>>
    /\ \E o, q \in 1..Len(objs) :
          /\ objs[o].disposeCalls = 1 /\ objs[o].setTextureCalls = 0
          /\ objs[q].disposeCalls = 1 /\ objs[q].setTextureCalls = 1
          /\ o < q

(***************************************************************************)
(* C6.  A completed onNoiseChange leaves the active map as it is (keys,    *)
(* order, and each record's centre, size and chunk object), disposes no    *)
(* chunk and creates none; each active chunk receives one setTexture call  *)
(* and its height field becomes the one the updated generator yields for   *)
(* the record's own centre and size.                                       *)
(***************************************************************************)
C6_NoiseChangeFrame ==
    [][ (ops' = ops + 1 /\ lastOp' = "noise")
        =>
        /\ chunks' = chunks
        /\ Len(objs') = Len(objs)
        /\ \A o \in 1..Len(objs) :
              IF o \in ActiveObjs
              THEN objs'[o] = [objs[o] EXCEPT !.heightMapTexture = objs'[o].heightMapTexture,
                                              !.setTextureCalls = @ + 1]
              ELSE objs'[o] = objs[o]
        /\ \A j \in 1..Len(chunks) :
              LET r == chunks[j].v
                  t == objs'[r.chunk].heightMapTexture
              IN  /\ t > Len(texs)
                  /\ texs'[t].disposeCalls = 0
                  /\ texs'[t].data = HeightData(ng', r.center[1], r.center[2], r.size)
      ]_vars

\* a noise change has run on chunks of two sizes with a generator of another type
C6_Witness ==
    /\ lastOp = "noise"
    /\ ng.type = "perlin"
    /\ \E i, j \in 1..Len(chunks) :
          /\ chunks[i].v.size = 128 /\ chunks[j].v.size = 256
          /\ objs[chunks[i].v.chunk].setTextureCalls = 1
          /\ objs[chunks[j].v.chunk].setTextureCalls = 1
          /\ texs[objs[chunks[j].v.chunk].heightMapTexture].data[1].kind = "perlin"

(***************************************************************************)
(* C7.  When onNoiseChange completes twice in a row with the same noise    *)
(* parameters, every active chunk's height field after the second call is  *)
(* element for element the one after the first call.                       *)
(***************************************************************************)
C7_SameParamsSameField ==
    [][ (lastOp = "noise" /\ ops' = ops + 1 /\ lastOp' = "noise"
            /\ noiseParams' = noiseParams)
        =>
        \A j \in 1..Len(chunks') :
            /\ chunks'[j] = chunks[j]
            /\ LET c == chunks[j].v.chunk
               IN  /\ objs'[c].heightMapTexture # objs[c].heightMapTexture
                   /\ texs'[objs'[c].heightMapTexture].data
                         = texs[objs[c].heightMapTexture].data
      ]_vars

\* two noise changes with a new seed have run on an active chunk and left equal fields
C7_Witness ==
    /\ lastOp = "noise"
    /\ noiseParams.seed = Fin(2)
    /\ Len(chunks) = 1
    /\ Len(texs) = 3
    /\ objs[chunks[1].v.chunk].setTextureCalls = 2
    /\ objs[chunks[1].v.chunk].heightMapTexture = 3
    /\ texs[2].data = texs[3].data
    /\ texs[1].data # texs[2].data

(***************************************************************************)
(* Scenario of C11: root [-256,256]^2, minimum node size 64, one insert of *)
(* the origin into the fresh tree.                                         *)
(***************************************************************************)
C11_Scenario ==
    /\ tree.bounds = Box2(<<-256, -256>>, <<256, 256>>)
    /\ minNode = 64
    /\ inserts = 1
    /\ point = <<0, 0>>

\* the leaves whose bounds hold the point p (boundary included)
LeavesAt(p) ==
    { i \in 1..Len(leaves) :
        /\ leaves[i].bounds.min[1] <= p[1] /\ p[1] <= leaves[i].bounds.max[1]
        /\ leaves[i].bounds.min[2] <= p[2] /\ p[2] <= leaves[i].bounds.max[2] }

\* the four corners of the root
RootCorners == { <<x, y>> : x \in {tree.bounds.min[1], tree.bounds.max[1]},
                            y \in {tree.bounds.min[2], tree.bounds.max[2]} }

(***************************************************************************)
(* C11.  As claimed: in the scenario the leaves at the root's corners have *)
(* size 512.                                                               *)
(***************************************************************************)
C11_Original ==
    C11_Scenario =>
        \A p \in RootCorners : \A i \in LeavesAt(p) : leaves[i].size[1] = 512

(***************************************************************************)
(* C11.  As the code computes it: in the scenario the root (size 512, its  *)
(* centre is the viewer) and its four quadrants are split; each corner of  *)
(* the root lies in exactly one leaf, of size 128, and the leaves that     *)
(* hold the origin have size 64.                                           *)
(***************************************************************************)
C11_CornerLeaves ==
    C11_Scenario =>
        /\ \A p \in RootCorners :
              /\ Cardinality(LeavesAt(p)) = 1
              /\ \A i \in LeavesAt(p) : leaves[i].size = <<128, 128>>
        /\ Cardinality(LeavesAt(<<0, 0>>)) = 4
        /\ \A i \in LeavesAt(<<0, 0>>) : leaves[i].size = <<64, 64>>
        /\ \A i \in 1..Len(leaves) : leaves[i].size[1] < 512

\* the scenario has run: 12 leaves of size 128 and 16 of size 64
C11_Witness ==
    /\ C11_Scenario
    /\ Len(leaves) = 28
    /\ \E i \in LeavesAt(<<256, 256>>) : leaves[i].size[1] = 128

(***************************************************************************)
(* C12.  For all dictionaries current and desired, the keys of             *)
(* DictIntersection(current, desired) together with the keys of            *)
(* DictDifference(desired, current) are exactly the keys of desired, and   *)
(* DictDifference(current, desired) has no key of desired.                 *)
(***************************************************************************)
C12_SetDiff ==
    probe.op = "dict" =>
        /\ DictKeys(probe.intersection) \cup DictKeys(probe.difference)
              = DictKeys(probe.desired)
        /\ DictKeys(probe.recycle) \cap DictKeys(probe.desired) = {}

\* dictionaries that overlap in part: something is kept, created and recycled
C12_Witness ==
    /\ probe.op = "dict"
    /\ DictKeys(probe.current) = {"0.0", "1.0"}
    /\ DictKeys(probe.desired) = {"1.0", "0.-1"}
    /\ DictKeys(probe.intersection) = {"1.0"}
    /\ DictKeys(probe.difference) = {"0.-1"}
    /\ DictKeys(probe.recycle) = {"0.0"}

(***************************************************************************)
(* C13.  DictIntersection(current, desired) has exactly the keys present   *)
(* in both dictionaries, each once, each mapped to the value it has in     *)
(* current.                                                                *)
(***************************************************************************)
C13_IntersectionValues ==
    probe.op = "dict" =>
        /\ DictKeys(probe.intersection)
              = DictKeys(probe.current) \cap DictKeys(probe.desired)
        /\ Len(probe.intersection) = Cardinality(DictKeys(probe.intersection))
        /\ \A k \in DictKeys(probe.intersection) :
              DictGet(probe.intersection, k) = DictGet(probe.current, k)

\* a common key whose values differ in the two dictionaries
C13_Witness ==
    /\ probe.op = "dict"
    /\ DictHas(probe.current, "1.0") /\ DictHas(probe.desired, "1.0")
    /\ DictGet(probe.current, "1.0") = "r1"
    /\ DictGet(probe.desired, "1.0") = "r2"
    /\ DictGet(probe.intersection, "1.0") = "r1"
    /\ Len(probe.desired) = 2 /\ Len(probe.intersection) = 1

\* the key updateQuadTree gives to a leaf
LeafKey(l) == QuadTreeKey(LeafCenter(l)[1], -LeafCenter(l)[2], LeafWidth(l))

(***************************************************************************)
(* C14.  Within one quadtree query two different leaves never yield the    *)
(* same _quadTreeKey, two leaves yield the same key only if they have the  *)
(* same centre and size, and the active map built from the query holds one *)
(* chunk per key, no two records sharing a chunk object.                   *)
(***************************************************************************)
C14_KeysDistinct ==
    lastOp = "update" =>
        /\ \A l1, l2 \in LeafSet(viewer) :
              /\ l1 # l2 => LeafKey(l1) # LeafKey(l2)
              /\ LeafKey(l1) = LeafKey(l2)
                    => LeafCenter(l1) = LeafCenter(l2) /\ LeafWidth(l1) = LeafWidth(l2)
        /\ DictKeys(chunks) = { LeafKey(l) : l \in LeafSet(viewer) }
        /\ Cardinality(DictKeys(chunks)) = Cardinality(LeafSet(viewer))
        /\ Cardinality(ActiveObjs) = Cardinality(LeafSet(viewer))

\* a query with leaves of two sizes, two of them equal in size and in centre x
C14_Witness ==
    /\ lastOp = "update"
    /\ Len(chunks) = 7
    /\ \E i, j \in 1..Len(chunks) :
          /\ i # j
          /\ chunks[i].v.size = chunks[j].v.size
          /\ chunks[i].v.center[1] = chunks[j].v.center[1]
          /\ chunks[i].k # chunks[j].k
    /\ \E i \in 1..Len(chunks) : chunks[i].v.size = 256

\* the arguments of the last get2D / get3D call are all finite
ProbeAtFinite == \A i \in 1..Len(probe.at) : CoordFinite(probe.at[i])

\* the constant 0 as a returned value
ZeroValue == [kind |-> "constant", value |-> 0]

(***************************************************************************)
(* C15.  As claimed: setParams rebuilds the simplex and perlin primitives, *)
(* from the new seed, if and only if the new seed differs from the stored  *)
(* seed, and keeps the existing primitive objects otherwise.  The code     *)
(* also requires the new seed to be finite: a non-finite seed that differs *)
(* from the stored one is stored, and the old primitives stay.             *)
(***************************************************************************)
C15_RebuildIffSeedDiffers ==
    probe.op = "setParams" =>
        IF probe.params.seed # probe.before.seed
        THEN /\ gen.builds = probe.before.builds + 1
             /\ gen.noise = Generators(probe.params.seed)
        ELSE /\ gen.builds = probe.before.builds
             /\ gen.noise = probe.before.noise

(***************************************************************************)
(* C16.  As claimed: get2D / get3D at finite coordinates on a generator    *)
(* whose noise type has no registered primitive returns the constant 0 and *)
(* does not fail.  The code throws a TypeError in the first octave (and    *)
(* returns NaN when there is no octave).                                   *)
(***************************************************************************)
C16_PlaceholderReturnsZero ==
    (probe.op \in {"get2D", "get3D"} /\ ProbeAtFinite
        /\ gen.type \notin {"simplex", "perlin"})
    => (probe.outcome = "none" /\ probe.value = ZeroValue)

(***************************************************************************)
(* C17.  As claimed: get2D(x, y) fails with the invalid-coordinate error   *)
(* whenever x or y is non-finite and returns a value without error for all *)
(* finite x and y.  The first half holds for every generator; the second   *)
(* fails for a generator whose noise type has no registered primitive.     *)
(***************************************************************************)
C17_Get2DValidation ==
    probe.op = "get2D" =>
        IF ProbeAtFinite THEN probe.outcome = "none" ELSE probe.outcome = "Error"

(***************************************************************************)
(* C18.  mulberry32 with a non-finite seed (NaN, +Infinity, -Infinity,     *)
(* undefined) does not fail and starts from the state 1: after any number  *)
(* of calls the closure's state and the values it has returned are those   *)
(* of mulberry32(1) after the same number of calls.                        *)
(***************************************************************************)
C18_NonFiniteSeedIsOne ==
    (probe.op = "mulberry32" /\ ~IsFinite(probe.seed)) =>
        /\ MulberryRun(probe.seed, 0).rnd.state = <<0, 1>>
        /\ rnd = MulberryRun(Fin(1), probe.calls).rnd
        /\ probe.out = MulberryRun(Fin(1), probe.calls).out
        /\ Len(probe.out) = probe.calls

\* two calls on mulberry32(undefined): the state is 1 + 2 * 0x6D2B79F5
C18_Witness ==
    /\ probe.op = "mulberry32"
    /\ probe.seed = Undefined
    /\ probe.calls = 2
    /\ rnd.state = <<55894, 62443>>
    /\ Len(probe.out) = 2
    /\ probe.out[1] # probe.out[2]

\* the textures held by live chunk objects, with the centre and size of the chunk
HeldTextures ==
    { [tex |-> objs[o].heightMapTexture, center |-> objs[o].position,
       size |-> objs[o].chunkSize] :
        o \in { q \in 1..Len(objs) : objs[q].heightMapTexture # 0 } }

\* the fraction f = <<num, den>> equals num2 / den2
FracEq(f, num2, den2) == f[2] # 0 /\ den2 # 0 /\ f[1] * den2 = num2 * f[2]

(***************************************************************************)
(* C19.  Every height field built by _generateHeightMapTexture is a square *)
(* row-major matrix with segments + 3 samples per axis, whatever the       *)
(* centre and size: width and height are segments + 3, the array has       *)
(* (segments + 3)^2 elements, and element row * width + col has the x of   *)
(* its column and the y of its row.                                        *)
(***************************************************************************)
C19_FieldDimensions ==
    \A t \in 1..Len(texs) :
        LET w == ChunkSegments + 3
            d == texs[t].data
        IN  /\ texs[t].width = w
            /\ texs[t].height = w
            /\ Len(d) = w * w
            /\ \A row \in 0..(w - 1), col \in 0..(w - 1) :
                  /\ d[row * w + col + 1].x = d[col + 1].x
                  /\ d[row * w + col + 1].y = d[row * w + 1].y
            /\ \A col \in 1..(w - 1) : d[col + 1].x # d[col].x
            /\ \A row \in 1..(w - 1) : d[row * w + 1].y # d[(row - 1) * w + 1].y

\* fields have been built for chunks of sizes 128 and 256 and rebuilt by a noise change
C19_Witness ==
    /\ lastOp = "noise"
    /\ \E a, b \in HeldTextures :
          /\ a.size = 128 /\ b.size = 256
          /\ a.center # b.center
          /\ Len(texs[a.tex].data) = (ChunkSegments + 3) * (ChunkSegments + 3)
          /\ Len(texs[b.tex].data) = Len(texs[a.tex].data)
    /\ Len(texs) > Len(objs)

(***************************************************************************)
(* C20.  In the height field of a chunk with centre c, size s and n        *)
(* segments the sample at (row, col) is taken at                           *)
(* (c.x - s/2 + (col - 1) * s/n, c.y - s/2 + (row - 1) * s/n): indices 1   *)
(* and n + 1 lie on the chunk's lower and upper bound, indices 0 and n + 2 *)
(* one step outside.                                                       *)
(***************************************************************************)
C20_SamplePositions ==
    \A h \in HeldTextures :
        LET n == ChunkSegments
            w == n + 3
            s == h.size
            d == texs[h.tex].data
            \* c - s/2 + (i - 1) * s/n  =  (2nc - ns + 2(i - 1)s) / 2n
            Num(c, i) == 2 * n * c - n * s + 2 * (i - 1) * s
        IN  /\ \A row \in 0..(w - 1), col \in 0..(w - 1) :
                  /\ FracEq(d[row * w + col + 1].x, Num(h.center[1], col), 2 * n)
                  /\ FracEq(d[row * w + col + 1].y, Num(h.center[2], row), 2 * n)
            /\ FracEq(d[2].x, 2 * h.center[1] - s, 2)
            /\ FracEq(d[n + 2].x, 2 * h.center[1] + s, 2)
            /\ FracEq(d[w + 1].y, 2 * h.center[2] - s, 2)
            /\ FracEq(d[(n + 1) * w + 1].y, 2 * h.center[2] + s, 2)
            /\ d[1].x[1] * 2 < (2 * h.center[1] - s) * d[1].x[2]
            /\ d[w].x[1] * 2 > (2 * h.center[1] + s) * d[w].x[2]

\* the field of the chunk of size 128 centred on (-192, -192): with one segment
\* the first sample is a whole chunk outside, at x = -384
C20_Witness ==
    /\ lastOp = "update"
    /\ \E h \in HeldTextures :
          /\ h.center = <<-192, -192>>
          /\ h.size = 128
          /\ FracEq(texs[h.tex].data[1].x, -256 * ChunkSegments - 128, ChunkSegments)
          /\ FracEq(texs[h.tex].data[2].x, -256, 1)
          /\ FracEq(texs[h.tex].data[2].y, -256 * ChunkSegments - 128, ChunkSegments)

(***************************************************************************)
(* C21.  As claimed: building a chunk with size < 1 or segments < 1 fails  *)
(* with the configuration error (the Error of HeightMap.constructor) and   *)
(* adds no record.  No record is ever added, but with segments = 0 the     *)
(* build fails earlier, in _generateHeightMapTexture, with the invalid-    *)
(* coordinate Error of get2D.                                              *)
(***************************************************************************)
C21_BuildFailsWithConfigurationError ==
    (probe.op = "build" /\ (probe.chunkSize < 1 \/ probe.chunkSegments < 1))
    => (probe.outcome = "HeightMapError" /\ ~probe.recordAdded)

(***************************************************************************)
(* C22.  setTexture(null) on a chunk that has not been disposed throws the *)
(* "texture is required" Error; the chunk keeps the height texture it held *)
(* before the call and that texture has received no dispose call.          *)
(***************************************************************************)
C22_SetTextureNullRejected ==
    [][(probe'.op = "setTexture" /\ probe'.calls = probe.calls + 1
            /\ probe'.texture = 0 /\ probe'.before.heightMap)
       => /\ probe'.threw
          /\ probe'.error = "texture is required"
          /\ objs'[probe'.chunk].heightMap
          /\ objs'[probe'.chunk].heightMapTexture = objs[probe'.chunk].heightMapTexture
          /\ objs'[probe'.chunk].heightMapTexture # 0
          /\ texs' = texs
          /\ texs'[objs'[probe'.chunk].heightMapTexture].disposeCalls = 0]_vars

C22_Witness ==
    /\ probe.op = "setTexture" /\ probe.texture = 0 /\ probe.before.heightMap
    /\ probe.threw
    /\ objs[probe.chunk].heightMapTexture = probe.before.heightMapTexture
    /\ texs[objs[probe.chunk].heightMapTexture].disposeCalls = 0

(***************************************************************************)
(* C23.  As claimed: after any number of next() calls on the generator     *)
(* returned by mulberry32(seed) the stored state lies in [0, 2^32), i.e.   *)
(* its high half-word is below 2^16.  The state is advanced by a plain     *)
(* number addition, so it leaves the range.                                *)
(***************************************************************************)
C23_StateIsUint32 ==
    probe.op = "mulberry32"
    => (rnd.state[1] \in 0..65535 /\ rnd.state[2] \in 0..65535)

(***************************************************************************)
(* C24 as stated.  After insert(point) on a new tree, for any two leaves A *)
(* and B, if distance(A.center, point) < distance(B.center, point) then    *)
(* A.size.x <= B.size.x.                                                   *)
(***************************************************************************)
C24_Original ==
    inserts = 1 =>
        \A i, j \in 1..Len(leaves) :
            DistSq(leaves[i].center, point) < DistSq(leaves[j].center, point)
            => leaves[i].size[1] <= leaves[j].size[1]

(***************************************************************************)
(* C24 amended.  After insert(point) on a new tree leaf size is monotone   *)
(* in distance only up to a factor: when leaf A is larger than leaf B, A   *)
(* was left unsplit because its centre is at least A.size.x away from the  *)
(* point, and B's centre is less than 1.5 times as far from the point as   *)
(* A's centre.                                                             *)
(***************************************************************************)
C24_LargerLeafIsFar ==
    inserts = 1 =>
        \A i, j \in 1..Len(leaves) :
            leaves[i].size[1] > leaves[j].size[1]
            => /\ DistSq(leaves[i].center, point) >= leaves[i].size[1] * leaves[i].size[1]
               /\ 4 * DistSq(leaves[j].center, point) < 9 * DistSq(leaves[i].center, point)

\* a larger leaf whose centre is closer to the point than a smaller leaf's centre
C24_Witness ==
    /\ inserts = 1
    /\ \E i, j \in 1..Len(leaves) :
          /\ leaves[i].size[1] > leaves[j].size[1]
          /\ DistSq(leaves[i].center, point) < DistSq(leaves[j].center, point)

(***************************************************************************)
(* C25.  When update() runs twice in a row with the same closure and the   *)
(* viewer at the same position, the second call creates no chunk object    *)
(* and no height texture, disposes nothing (no chunk object and no texture *)
(* changes at all) and leaves the active map with the same keys bound to   *)
(* the same records.                                                       *)
(***************************************************************************)
C25_RepeatedTickIsNoOp ==
    [][(/\ probe'.op = "tick" /\ probe'.at = ops' /\ ops' = ops + 1
        /\ probe.op = "tick" /\ probe.at = ops /\ lastOp \in {"update", "throw"}
        /\ probe'.policy = probe.policy
        /\ probe'.pos = probe.pos)
       => /\ objs' = objs
          /\ texs' = texs
          /\ { chunks'[i] : i \in 1..Len(chunks') } = { chunks[i] : i \in 1..Len(chunks) }
          /\ Len(chunks') = Len(chunks)]_vars

\* the second of two quadtree ticks at one position, on a populated active map
C25_Witness ==
    /\ probe.op = "tick" /\ probe.policy = "updateQuadTree" /\ probe.at = 2 /\ ops = 2
    /\ lastOp = "update"
    /\ Len(chunks) >= 7 /\ Len(objs) = Len(chunks)

(***************************************************************************)
(* C26.  Whatever ticks, noise changes and manager disposal have run, no   *)
(* height texture has received more than one dispose call, and the         *)
(* textures generated and not disposed are exactly the textures held by    *)
(* the chunks of the active map.                                           *)
(***************************************************************************)
C26_TexturesBalanced ==
    /\ \A t \in 1..Len(texs) : texs[t].disposeCalls <= 1
    /\ { t \in 1..Len(texs) : texs[t].disposeCalls = 0 }
           = { objs[c].heightMapTexture : c \in ActiveObjs }

\* textures have been replaced by a noise change and released by a tick, and the
\* active map is populated
C26_Witness ==
    /\ Len(chunks) >= 7
    /\ \E c \in 1..Len(objs) : objs[c].setTextureCalls >= 1 /\ objs[c].disposeCalls = 1
    /\ \E t \in 1..Len(texs) : texs[t].disposeCalls = 1
    /\ \E t \in 1..Len(texs) : texs[t].disposeCalls = 0

(***************************************************************************)
(* C27.  As claimed: after a quadtree tick in which the creation of a      *)
(* chunk threw, every chunk whose mesh is in the scene group and that was  *)
(* not disposed is a value of the active map, and every record of the      *)
(* active map holds a chunk that was not disposed.  The chunks the failed  *)
(* tick created before the throw are in the group and in no map.           *)
(***************************************************************************)
C27_NoOrphanAfterFailedTick ==
    (probe.op = "tick" /\ probe.at = ops /\ lastOp = "throw")
    => /\ \A c \in 1..Len(objs) :
              (objs[c].inGroup /\ objs[c].disposeCalls = 0) => c \in ActiveObjs
       /\ \A i \in 1..Len(chunks) : objs[chunks[i].v.chunk].disposeCalls = 0

\* the coordinate v lies in [i * chunkSize - chunkSize/2, i * chunkSize + chunkSize/2);
\* the double just below n is greater than n - 1 and less than n
InCellSpan(v, i) ==
    IF v.below
    THEN 2 * i * ChunkSize - ChunkSize < 2 * v.int /\ 2 * v.int <= 2 * i * ChunkSize + ChunkSize
    ELSE 2 * i * ChunkSize - ChunkSize <= 2 * v.int /\ 2 * v.int < 2 * i * ChunkSize + ChunkSize

(***************************************************************************)
(* C28.  As claimed: for every finite position, with [cx, cy] the result   *)
(* of _cellIndex and s the chunk size, cx*s - s/2 <= x < cx*s + s/2 and    *)
(* (-cy)*s - s/2 <= p < (-cy)*s + s/2, p being z when z is finite and y    *)
(* otherwise.  The largest double below s/2 is rounded up to the next      *)
(* cell.                                                                   *)
(***************************************************************************)
C28_CellContainsViewer ==
    (probe.op = "cellIndex" /\ ~probe.threw)
    => /\ InCellSpan(probe.pos.x, probe.cell[1])
       /\ InCellSpan(IF probe.pos.z.finite THEN probe.pos.z ELSE probe.pos.y, -probe.cell[2])

\* the number of levels below a node
RECURSIVE TreeDepth(_)
TreeDepth(node) ==
    IF Len(node.children) = 0 THEN 0
    ELSE 1 + CHOOSE d \in { TreeDepth(node.children[i]) : i \in 1..Len(node.children) } :
                 \A i \in 1..Len(node.children) : TreeDepth(node.children[i]) <= d

\* ceil(log2(r / m)) for positive integers r and m
RECURSIVE CeilLog2Ratio(_, _)
CeilLog2Ratio(r, m) ==
    IF r > m THEN 1 + CeilLog2Ratio(r, 2 * m)
    ELSE IF 2 * r <= m THEN CeilLog2Ratio(2 * r, m) - 1
    ELSE 0

(***************************************************************************)
(* C29 as stated.  After insert (which returns for every point) the depth  *)
(* of the tree is at most ceil(log2(rootSize / minNodeSize)), and no node  *)
(* whose size.x is not greater than minNodeSize has children.              *)
(***************************************************************************)
C29_Original ==
    inserts >= 1 =>
        /\ TreeDepth(tree) <= CeilLog2Ratio(tree.size[1], minNode)
        /\ \A n \in NodesOf(tree) : ~(n.size[1] > minNode) => Len(n.children) = 0

(***************************************************************************)
(* C29 amended.  After any number of insert calls, for points inside or    *)
(* outside the root, the depth of the tree is at most                      *)
(* max(0, ceil(log2(rootSize / minNodeSize))): a root no larger than       *)
(* minNodeSize stays a single leaf of depth 0 while the logarithm is       *)
(* negative once rootSize <= minNodeSize / 2.  No node whose size.x is not *)
(* greater than minNodeSize has children.                                  *)
(***************************************************************************)
C29_DepthBound ==
    inserts >= 1 =>
        /\ TreeDepth(tree) <= IF CeilLog2Ratio(tree.size[1], minNode) > 0
                              THEN CeilLog2Ratio(tree.size[1], minNode) ELSE 0
        /\ \A n \in NodesOf(tree) : ~(n.size[1] > minNode) => Len(n.children) = 0

\* the bound is reached: a tree of depth 3 = ceil(log2(rootSize / minNodeSize))
C29_Witness ==
    /\ inserts >= 1
    /\ TreeDepth(tree) = CeilLog2Ratio(tree.size[1], minNode)
    /\ TreeDepth(tree) >= 3

(***************************************************************************)
(* C30.  As claimed: after any sequence of setParams calls the generator   *)
(* holds the primitives a new NoiseGenerator(params) would build from the  *)
(* parameters of the last call, and get2D ends and returns as it would on  *)
(* that new generator.  A call whose seed is not finite keeps the          *)
(* primitives of the seed stored before it.                                *)
(***************************************************************************)
C30_SamplesLikeFresh ==
    probe.op = "setParams" =>
        LET fresh == NewNoiseGenerator(probe.params)
        IN  /\ gen.noise = fresh.noise
            /\ \A x \in ProbeCoords, y \in ProbeCoords :
                  /\ SampleOutcome(gen, <<x, y>>) = SampleOutcome(fresh, <<x, y>>)
                  /\ ~Get2DThrows(gen, x, y) => Get2D(gen, x, y) = Get2D(fresh, x, y)

====
